---- MODULE Spec2Model ----
(***************************************************************************)
(* Model of package efs (src/efs.go): ExtractToTemp, ExtractFile, the       *)
(* sync.Once cleanup guard they return, and StartCleanupListener.           *)
(*                                                                          *)
(* Paths are sequences of segments.  A source (fs.FS) path "a/b" is         *)
(* <<"a","b">>, "." is <<".">> and "" is <<>>.  A disk path is absolute     *)
(* when its first segment is "/"; relative disk paths resolve against Cwd.  *)
(***************************************************************************)
EXTENDS Integers, Sequences, FiniteSets, TLC

\* ------------------------------------------------------------------ bounds
NumThreads == 2       \* goroutines that extract and invoke cleanup triggers
MaxCalls == 2         \* trigger invocations begun per goroutine
MaxEntries == 3       \* entries of the source filesystem besides its root
NumRand == 2          \* random suffixes os.MkdirTemp can draw
NumListeners == 2     \* calls of StartCleanupListener
MaxStops == 2         \* calls of one listener's stop function
MaxSignals == 1       \* signals sent to the process
MaxFaults == 1        \* I/O operations that fail for a reason of the environment
MaxFileFaults == 2    \* the same, among the operations of an ExtractFile call

Threads == 1..NumThreads
Listeners == 1..NumListeners

\* ------------------------------------------------------------- filesystem
Dir == [dir |-> TRUE, data |-> ""]
File(b) == [dir |-> FALSE, data |-> b]

\* File contents; "" is an empty or truncated file.
Bytes == {"x", "y"}

Cwd == <<"/", "cwd">>

IsPrefix(p, q) == Len(p) <= Len(q) /\ SubSeq(q, 1, Len(p)) = p
IsAbs(p) == Len(p) > 0 /\ p[1] = "/"

\* filepath.Clean on a segment sequence: "." segments vanish.
Clean(p) == SelectSeq(p, LAMBDA s : s # ".")

\* The absolute location a disk path names for the running process.
Resolve(p) == IF IsAbs(p) THEN Clean(p) ELSE Cwd \o Clean(p)

\* filepath.Abs when os.Getwd succeeds.
Abs(p) == IF IsAbs(p) THEN Clean(p) ELSE Cwd \o Clean(p)

\* filepath.Join(a, rel) and filepath.Dir(p)
FilepathJoin(a, rel) == Clean(a \o rel)
FilepathDir(p) == IF Len(p) <= 1 THEN p ELSE SubSeq(p, 1, Len(p) - 1)

Restrict(d, S) == [q \in S |-> d[q]]
Put(d, p, n) == [q \in DOMAIN d \cup {p} |-> IF q = p THEN n ELSE d[q]]
Under(d, p) == {q \in DOMAIN d : IsPrefix(p, q)}

\* os.RemoveAll(p) returning nil: p and everything below it are gone.
RemoveAllKeepsRoot(d, p) == Restrict(d, (DOMAIN d \ Under(d, p)) \cup ({p} \cap DOMAIN d))
RemoveAllSiblings(d, p) == Restrict(d, DOMAIN d \ Under(d, FilepathDir(p)))
RemoveAllOk(d, p) == Restrict(d, DOMAIN d \ Under(d, p))

\* os.RemoveAll(p) returning an error: p itself stays, with any part of what
\* was below it (a parent never vanishes before its children).
RemoveAllFail(d, p) ==
  { Restrict(d, (DOMAIN d \ Under(d, p)) \cup K) :
      K \in { S \in SUBSET Under(d, p) :
                /\ p \in S
                /\ \A q \in S : Len(q) > Len(p) => FilepathDir(q) \in S } }

\* os.Remove(p): a file or an empty directory is removed, anything else fails.
RemoveCan(d, p) == p \in DOMAIN d /\ Under(d, p) = {p}
RemoveOk(d, p) == Restrict(d, DOMAIN d \ {p})

VARIABLES
  fsys,        \* the source fs.FS: path -> Dir / File(b); <<".">> is its root
  rootIn,      \* [Threads -> root argument of the goroutine's ExtractToTemp]
  tempDirIn,   \* [Threads -> tempDir argument]
  filePathIn,  \* [Threads -> filePath argument of the goroutine's ExtractFile]
  disk,        \* the real filesystem: absolute path -> Dir / File(b)
  xpc,         \* [Threads -> position in ExtractToTemp or ExtractFile]
  xs,          \* [Threads -> locals of ExtractToTemp: root, baseDir, temp,
               \*             absTempDir, todo, err]
  fx,          \* [Threads -> locals of ExtractFile: baseDir, data, ext, name,
               \*             absFilePath; history: created (os.CreateTemp made
               \*             the file), at (the step that failed), rm (how the
               \*             os.Remove of the error path ended)]
  ret,         \* [Threads -> what the call returned: path, cleanup, err]
  gpath,       \* [Threads -> path the guard created by the call removes]
  gkind,       \* [Threads -> "dir" (os.RemoveAll) or "file" (os.Remove)]
  once,        \* [Threads -> sync.Once of the guard: done, m (holder or 0)]
  cpc,         \* [Threads -> position inside the cleanup closure]
  cg,          \* [Threads -> the guard the goroutine is invoking]
  ncalls,      \* [Threads -> trigger invocations begun by the goroutine]
  removals,    \* history: [guard -> removal attempts started]
  rmRes,       \* history: [guard -> "none", "ok" or "fail": how it ended]
  retd,        \* history: [guard -> trigger invocations that have returned]
  recreated,   \* history: [guard -> its path was created again afterwards]
  injected,    \* history: [Threads -> an I/O operation of the call failed]
  faults,      \* history: I/O operations the environment has made fail
  proc,        \* the process: state "running", "exited", "panicked", "killed"; exit code
  lis,         \* [Listeners -> the state of a StartCleanupListener call]
  nstops,      \* [Listeners -> calls of the listener's stop function begun]
  nsigs        \* signals the operating system has sent to the process

lvars == <<proc, lis, nstops, nsigs>>
ins == <<fsys, rootIn, tempDirIn, filePathIn>>
env == <<ins, fx, lvars>>
xvars == <<env, xpc, xs, ret, injected, faults>>
gvars == <<gpath, gkind, once, cpc, cg, ncalls, removals, rmRes, retd, recreated>>
vars == <<fsys, rootIn, tempDirIn, filePathIn, disk, xpc, xs, fx, ret, gpath, gkind, once, cpc,
          cg, ncalls, removals, rmRes, retd, recreated, injected, faults,
          proc, lis, nstops, nsigs>>

NoPath == <<>>
NoRet == [path |-> NoPath, cleanup |-> FALSE, err |-> FALSE]
NoLocals == [root |-> <<>>, baseDir |-> <<>>, temp |-> NoPath,
             absTempDir |-> NoPath, todo |-> <<>>, err |-> FALSE]
NoFileLocals == [baseDir |-> <<>>, data |-> "", ext |-> "", name |-> NoPath,
                 absFilePath |-> NoPath, created |-> FALSE, at |-> "none",
                 rm |-> "none"]

\* No StartCleanupListener call has been made.
NoListener ==
  [started |-> FALSE, dir |-> NoPath, notify |-> FALSE, sigCh |-> 0,
   stopped |-> FALSE, pc |-> "none", sig |-> 0, rmErr |-> FALSE, spc |-> "idle"]
NoListeners ==
  /\ proc = [state |-> "running", code |-> 0]
  /\ lis = [l \in Listeners |-> NoListener]
  /\ nstops = [l \in Listeners |-> 0]
  /\ nsigs = 0

\* ------------------------------------------------ the cleanup closure
\* cleanup := func() { once.Do(func() { _ = os.RemoveAll(absTempDir) }) }
\* sync.Once.Do: if done == 0 { m.Lock(); defer m.Unlock();
\*                              if done == 0 { defer done.Store(1); f() } }

\* The trigger is a value the caller holds once the call returned it.
HasTrigger(g) == ret[g].cleanup

\* A goroutine that holds the trigger invokes it.
CleanupCall(t, g) ==
  /\ cpc[t] = "idle"
  /\ xpc[t] \in {"none", "done"}
  /\ HasTrigger(g)
  /\ ncalls[t] < MaxCalls
  /\ cpc' = [cpc EXCEPT ![t] = "fast"]
  /\ cg' = [cg EXCEPT ![t] = g]
  /\ ncalls' = [ncalls EXCEPT ![t] = @ + 1]
  /\ UNCHANGED <<disk, xvars, gpath, gkind, once, removals, rmRes, retd, recreated>>

\* The closure returns to its caller; inside a failed ExtractToTemp the call
\* then returns ("", nil, err).
CleanupReturn(t) ==
  /\ cpc' = [cpc EXCEPT ![t] = "idle"]
  /\ retd' = [retd EXCEPT ![cg[t]] = @ + 1]
  /\ IF xpc[t] = "cleaning"
       THEN /\ xpc' = [xpc EXCEPT ![t] = "done"]
            /\ ret' = [ret EXCEPT ![t] = [path |-> NoPath, cleanup |-> FALSE, err |-> TRUE]]
       ELSE UNCHANGED <<xpc, ret>>

\* Once.Do's fast path: done.Load() == 0 ?
OnceFastSkipsLock(t) ==
  /\ cpc[t] = "fast"
  /\ cpc' = [cpc EXCEPT ![t] = "f"]
  /\ UNCHANGED <<disk, env, xpc, xs, ret, injected, faults, gpath, gkind,
                 once, cg, ncalls, removals, rmRes, retd, recreated>>
OnceFastFlagFirst(t) ==
  /\ cpc[t] = "fast"
  /\ IF once[cg[t]].done = 0
       THEN /\ once' = [once EXCEPT ![cg[t]].done = 1]
            /\ cpc' = [cpc EXCEPT ![t] = "f"]
            /\ UNCHANGED <<retd, xpc, ret>>
       ELSE /\ CleanupReturn(t)
            /\ UNCHANGED once
  /\ UNCHANGED <<disk, env, xs, injected, faults, gpath, gkind,
                 cg, ncalls, removals, rmRes, recreated>>
OnceFast(t) ==
  /\ cpc[t] = "fast"
  /\ IF once[cg[t]].done = 0
       THEN /\ cpc' = [cpc EXCEPT ![t] = "lock"]
            /\ UNCHANGED <<retd, xpc, ret>>
       ELSE CleanupReturn(t)
  /\ UNCHANGED <<disk, env, xs, injected, faults, gpath, gkind, once,
                 cg, ncalls, removals, rmRes, recreated>>

\* doSlow: o.m.Lock()
OnceLock(t) ==
  /\ cpc[t] = "lock"
  /\ once[cg[t]].m = 0
  /\ once' = [once EXCEPT ![cg[t]].m = t]
  /\ cpc' = [cpc EXCEPT ![t] = "slow"]
  /\ UNCHANGED <<disk, xvars, gpath, gkind, cg, ncalls, removals, rmRes, retd, recreated>>

\* doSlow: if o.done.Load() == 0 { defer o.done.Store(1); f() }
OnceSlowNoRecheck(t) ==
  /\ cpc[t] = "slow"
  /\ cpc' = [cpc EXCEPT ![t] = "f"]
  /\ UNCHANGED <<disk, xvars, gpath, gkind, once, cg, ncalls, removals, rmRes, retd, recreated>>
OnceSlow(t) ==
  /\ cpc[t] = "slow"
  /\ cpc' = [cpc EXCEPT ![t] = IF once[cg[t]].done = 0 THEN "f" ELSE "unlock"]
  /\ UNCHANGED <<disk, xvars, gpath, gkind, once, cg, ncalls, removals, rmRes, retd, recreated>>

\* f(): the removal starts ...
RemoveBegin(t) ==
  /\ cpc[t] = "f"
  /\ removals' = [removals EXCEPT ![cg[t]] = @ + 1]
  /\ cpc' = [cpc EXCEPT ![t] = "removing"]
  /\ UNCHANGED <<disk, xvars, gpath, gkind, once, cg, ncalls, rmRes, retd, recreated>>

\* The outcomes of the guard's removal: <<disk afterwards, "ok" or "fail",
\* failed for a reason of the environment>>.  os.RemoveAll of a missing path
\* returns nil; os.Remove of one returns an error.
RemovalOutcomes(d, p, kind) ==
  IF kind = "dir"
    THEN {<<RemoveAllOk(d, p), "ok", FALSE>>}
         \cup (IF p \in DOMAIN d THEN {<<e, "fail", TRUE>> : e \in RemoveAllFail(d, p)}
                                 ELSE {})
    ELSE IF RemoveCan(d, p) THEN {<<RemoveOk(d, p), "ok", FALSE>>, <<d, "fail", TRUE>>}
                            ELSE {<<d, "fail", FALSE>>}

\* The environment makes an operation fail only within its budget.
Fault(is) ==
  /\ is => faults < MaxFaults
  /\ faults' = IF is THEN faults + 1 ELSE faults

\* ... and ends, its error discarded.
RemoveEnd(t) ==
  /\ cpc[t] = "removing"
  /\ \E o \in RemovalOutcomes(disk, Resolve(gpath[cg[t]]), gkind[cg[t]]) :
       /\ disk' = o[1]
       /\ rmRes' = [rmRes EXCEPT ![cg[t]] = o[2]]
       /\ Fault(o[3])
  /\ cpc' = [cpc EXCEPT ![t] = "store"]
  /\ UNCHANGED <<env, xpc, xs, ret, injected, gpath, gkind, once, cg, ncalls, removals, retd, recreated>>

\* deferred o.done.Store(1)
OnceStore(t) ==
  /\ cpc[t] = "store"
  /\ once' = [once EXCEPT ![cg[t]].done = 1]
  /\ cpc' = [cpc EXCEPT ![t] = "unlock"]
  /\ UNCHANGED <<disk, xvars, gpath, gkind, cg, ncalls, removals, rmRes, retd, recreated>>

\* deferred o.m.Unlock(), then Do and the closure return
OnceUnlock(t) ==
  /\ cpc[t] = "unlock"
  /\ once' = [once EXCEPT ![cg[t]].m = IF @ = t THEN 0 ELSE @]
  /\ CleanupReturn(t)
  /\ UNCHANGED <<disk, env, xs, injected, faults, gpath, gkind,
                 cg, ncalls, removals, rmRes, recreated>>

CleanupStep(t) ==
  \/ OnceFast(t)
  \/ OnceLock(t)
  \/ OnceSlow(t)
  \/ RemoveBegin(t)
  \/ RemoveEnd(t)
  \/ OnceStore(t)
  \/ OnceUnlock(t)

\* Something else in the system creates the removed path again.
EnvRecreate(g) ==
  /\ rmRes[g] # "none"
  /\ Resolve(gpath[g]) \notin DOMAIN disk
  /\ disk' = Put(disk, Resolve(gpath[g]), Dir)
  /\ recreated' = [recreated EXCEPT ![g] = TRUE]
  /\ UNCHANGED <<xvars, gpath, gkind, once, cpc, cg, ncalls, removals, rmRes, retd>>

\* ------------------------------------------- the guard on its own
\* The state right after a successful ExtractToTemp (a populated directory)
\* or ExtractFile (one file) by goroutine 1, which shares the trigger.
BaseDisk ==
  [q \in {<<"/">>, Cwd, Cwd \o <<"base">>, Cwd \o <<"keep">>} |->
     IF q = Cwd \o <<"keep">> THEN File("x") ELSE Dir]

GuardDisks ==
  { <<"dir", Put(BaseDisk, Cwd \o <<"tst-1">>, Dir)>>,
    <<"dir", Put(Put(Put(BaseDisk, Cwd \o <<"tst-1">>, Dir),
                     Cwd \o <<"tst-1", "a">>, Dir),
                 Cwd \o <<"tst-1", "a", "b">>, File("x"))>>,
    <<"file", Put(BaseDisk, Cwd \o <<"tst-1">>, File("x"))>> }

InitGuard ==
  /\ fsys = [q \in {<<".">>} |-> Dir]
  /\ rootIn = [t \in Threads |-> <<".">>]
  /\ tempDirIn = [t \in Threads |-> <<>>]
  /\ \E gd \in GuardDisks :
       /\ disk = gd[2]
       /\ gkind = [t \in Threads |-> gd[1]]
  /\ xpc = [t \in Threads |-> IF t = 1 THEN "done" ELSE "none"]
  /\ xs = [t \in Threads |-> NoLocals]
  /\ filePathIn = [t \in Threads |-> <<>>]
  /\ fx = [t \in Threads |-> NoFileLocals]
  /\ ret = [t \in Threads |->
              IF t = 1 THEN [path |-> Cwd \o <<"tst-1">>, cleanup |-> TRUE, err |-> FALSE]
                       ELSE NoRet]
  /\ gpath = [t \in Threads |-> IF t = 1 THEN Cwd \o <<"tst-1">> ELSE NoPath]
  /\ once = [t \in Threads |-> [done |-> 0, m |-> 0]]
  /\ cpc = [t \in Threads |-> "idle"]
  /\ cg = [t \in Threads |-> 1]
  /\ ncalls = [t \in Threads |-> 0]
  /\ removals = [t \in Threads |-> 0]
  /\ rmRes = [t \in Threads |-> "none"]
  /\ retd = [t \in Threads |-> 0]
  /\ recreated = [t \in Threads |-> FALSE]
  /\ injected = [t \in Threads |-> FALSE]
  /\ faults = 0
  /\ NoListeners

NextGuard ==
  \/ \E t \in Threads : CleanupCall(t, 1)
  \/ \E t \in Threads : CleanupStep(t)
  \/ EnvRecreate(1)

SpecGuard == InitGuard /\ [][NextGuard]_vars

\* ------------------------------------------------------ the source fs.FS
\* Names in the order fs.ReadDir sorts them.
NameOrder == <<"a", "b">>

SrcPaths == {<<"a">>, <<"b">>, <<"a", "a">>, <<"a", "b">>, <<"a", "a", "b">>}

Nodes == {Dir} \cup {File(b) : b \in Bytes}

FsOK(f) ==
  /\ f[<<".">>] = Dir
  /\ \A p \in DOMAIN f \ {<<".">>} :
       Len(p) > 1 => (FilepathDir(p) \in DOMAIN f /\ f[FilepathDir(p)].dir)

SourceTrees ==
  { f \in UNION { [S \cup {<<".">>} -> Nodes] :
                    S \in {T \in SUBSET SrcPaths : Cardinality(T) <= MaxEntries} } :
      FsOK(f) }

\* fs.ValidPath: "." or a non-empty path without "." and ".." elements.
ValidPath(p) ==
  \/ p = <<".">>
  \/ Len(p) > 0 /\ \A i \in 1..Len(p) : p[i] \notin {".", "..", ""}

\* fs.Stat(fsys, name) succeeds
StatOk(f, p) == ValidPath(p) /\ p \in DOMAIN f

\* path.Join(dir, name) inside WalkDir
PathJoin(dir, name) == IF dir = <<".">> THEN <<name>> ELSE Append(dir, name)

\* fs.ReadDir(fsys, p): the entries of p sorted by name, as walked paths
ReadDir(f, p) ==
  SelectSeq([i \in 1..Len(NameOrder) |-> PathJoin(p, NameOrder[i])],
            LAMBDA q : q \in DOMAIN f)

\* fs.ReadFile(fsys, path)
ReadFile(f, p) == f[p].data

\* ------------------------------------------------------ disk operations
Prefixes(p) == {SubSeq(p, 1, k) : k \in 1..Len(p)}

\* os.MkdirAll(p): every missing directory of the chain is made; it fails when
\* some element of the chain exists and is not a directory.
MkdirAllCan(d, p) == \A q \in Prefixes(p) : q \in DOMAIN d => d[q].dir
MkdirAllOk(d, p) ==
  [q \in DOMAIN d \cup Prefixes(p) |-> IF q \in DOMAIN d THEN d[q] ELSE Dir]

\* Outcomes <<disk afterwards, succeeded, failed for a reason of the environment>>.
MkdirAllOutcomes(d, p) ==
  (IF MkdirAllCan(d, p) THEN {<<MkdirAllOk(d, p), TRUE, FALSE>>}
                        ELSE {<<d, FALSE, FALSE>>})
  \cup {<<MkdirAllOk(d, SubSeq(p, 1, k)), FALSE, TRUE>> :
          k \in {j \in 1..(Len(p) - 1) : MkdirAllCan(d, SubSeq(p, 1, j))}}
  \cup {<<d, FALSE, TRUE>>}

\* os.WriteFile(p, data): open with O_CREATE|O_TRUNC, write, close.
WriteFileCanOverDir(d, p) ==
  FilepathDir(p) \in DOMAIN d /\ d[FilepathDir(p)].dir
WriteFileCan(d, p) ==
  /\ FilepathDir(p) \in DOMAIN d /\ d[FilepathDir(p)].dir
  /\ p \in DOMAIN d => ~d[p].dir
WriteFileOutcomes(d, p, data) ==
  (IF WriteFileCan(d, p) THEN {<<Put(d, p, File(data)), TRUE, FALSE>>,
                               <<Put(d, p, File("")), FALSE, TRUE>>}
                         ELSE {<<d, FALSE, FALSE>>})
  \cup {<<d, FALSE, TRUE>>}

\* -------------------------------------------------------- ExtractToTemp
\* if root == "" { root = "." }
NormRootKeepsEmpty(r) == r
NormRoot(r) == IF r = <<>> THEN <<".">> ELSE r

\* baseDir := tempDir; if baseDir == "" { baseDir = "." }
NormBase(dir) == IF dir = <<>> THEN <<".">> ELSE dir

\* The name os.MkdirTemp(baseDir, tempPrefix+"-") tries with random part r.
TmpName(r) == "tst-" \o ToString(r)

\* rel: the walked path with a leading root+"/" cut off
RelBaseOnly(root, path) == <<path[Len(path)]>>
RelNoStrip(root, path) == path
Rel(root, path) ==
  IF root # <<".">> /\ root # <<>>
    THEN IF Len(path) > Len(root) /\ IsPrefix(root, path)
           THEN SubSeq(path, Len(root) + 1, Len(path))
           ELSE IF path = root THEN <<".">> ELSE path
    ELSE path

\* The callback without its line 100 (no os.MkdirAll of the parent).
WalkFnNoParents(d, f, root, absTempDir, path) ==
  IF path = root /\ f[path].dir
    THEN {<<d, TRUE, FALSE>>}
    ELSE LET dst == Resolve(FilepathJoin(absTempDir, Rel(root, path)))
         IN IF f[path].dir
              THEN MkdirAllOutcomes(d, dst)
              ELSE {<<d, FALSE, TRUE>>}
                   \cup WriteFileOutcomes(d, dst, ReadFile(f, path))

\* The WalkDir callback on (path, d) with walkErr == nil: the outcomes
\* <<disk afterwards, returned nil, failed for a reason of the environment>>.
WalkFn(d, f, root, absTempDir, path) ==
  IF path = root /\ f[path].dir
    THEN {<<d, TRUE, FALSE>>}
    ELSE LET dst == Resolve(FilepathJoin(absTempDir, Rel(root, path)))
         IN IF f[path].dir
              THEN MkdirAllOutcomes(d, dst)
              ELSE UNION { IF ~m[2]
                             THEN {m}
                             ELSE {<<m[1], FALSE, TRUE>>}      \* fs.ReadFile fails
                                  \cup WriteFileOutcomes(m[1], dst, ReadFile(f, path))
                           : m \in MkdirAllOutcomes(d, FilepathDir(dst)) }

\* lines 46-54: the defaults of root and tempDir
XStart(t) ==
  /\ xpc[t] = "start"
  /\ xs' = [xs EXCEPT ![t].root = NormRoot(rootIn[t]),
                      ![t].baseDir = NormBase(tempDirIn[t])]
  /\ xpc' = [xpc EXCEPT ![t] = "mktemp"]
  /\ UNCHANGED <<disk, env, ret, injected, faults, gvars>>

\* os.MkdirTemp: Mkdir of a random name, drawn again while the name exists.
MkdirTempAnyName(d, base) == 1..NumRand
MkdirTempFree(d, base) ==
  {r \in 1..NumRand : Resolve(base \o <<TmpName(r)>>) \notin DOMAIN d}

\* lines 56-71: the temporary directory, its absolute path and its guard
XMkdirTemp(t) ==
  /\ xpc[t] = "mktemp"
  /\ \/ /\ Resolve(xs[t].baseDir) \in DOMAIN disk
        /\ disk[Resolve(xs[t].baseDir)].dir
        /\ \E r \in MkdirTempFree(disk, xs[t].baseDir), absOk \in BOOLEAN :
             LET temp == xs[t].baseDir \o <<TmpName(r)>>
                 absTempDir == IF absOk THEN Abs(temp) ELSE temp
             IN /\ disk' = Put(disk, Resolve(temp), Dir)
                /\ xs' = [xs EXCEPT ![t].temp = temp, ![t].absTempDir = absTempDir]
                /\ gpath' = [gpath EXCEPT ![t] = absTempDir]
                /\ gkind' = [gkind EXCEPT ![t] = "dir"]
                /\ once' = [once EXCEPT ![t] = [done |-> 0, m |-> 0]]
                /\ Fault(~absOk)
        /\ xpc' = [xpc EXCEPT ![t] = "walk"]
        /\ UNCHANGED <<ret, injected>>
     \/ /\ xpc' = [xpc EXCEPT ![t] = "done"]
        /\ ret' = [ret EXCEPT ![t] = [path |-> NoPath, cleanup |-> FALSE, err |-> TRUE]]
        /\ injected' = [injected EXCEPT ![t] = TRUE]
        /\ Fault(TRUE)
        /\ UNCHANGED <<disk, xs, gpath, gkind, once>>
  /\ UNCHANGED <<env, cpc, cg, ncalls, removals, rmRes, retd, recreated>>

\* fs.WalkDir: fs.Stat(fsys, root); on its error fn(root, nil, err) returns it
XWalkRoot(t) ==
  /\ xpc[t] = "walk"
  /\ \/ /\ StatOk(fsys, xs[t].root)
        /\ xs' = [xs EXCEPT ![t].todo = <<xs[t].root>>]
        /\ xpc' = [xpc EXCEPT ![t] = "visit"]
        /\ UNCHANGED <<injected, faults>>
     \/ /\ xs' = [xs EXCEPT ![t].err = TRUE]
        /\ xpc' = [xpc EXCEPT ![t] = "failed"]
        /\ injected' = [injected EXCEPT ![t] = @ \/ StatOk(fsys, xs[t].root)]
        /\ Fault(StatOk(fsys, xs[t].root))
  /\ UNCHANGED <<disk, env, ret, gvars>>

\* fs.WalkDir's walkDir on the next path: fn(path, d, nil), then for a
\* directory fs.ReadDir and on its error fn(path, d, err), which returns it.
XVisit(t) ==
  /\ xpc[t] = "visit"
  /\ xs[t].todo # <<>>
  /\ LET path == Head(xs[t].todo)
     IN \E o \in WalkFn(disk, fsys, xs[t].root, xs[t].absTempDir, path),
           readDirOk \in BOOLEAN :
          /\ disk' = o[1]
          /\ readDirOk \/ (o[2] /\ fsys[path].dir)
          /\ Fault(o[3] \/ ~readDirOk)
          /\ IF o[2] /\ readDirOk
               THEN /\ xs' = [xs EXCEPT ![t].todo =
                               (IF fsys[path].dir THEN ReadDir(fsys, path) ELSE <<>>)
                               \o Tail(xs[t].todo)]
                    /\ UNCHANGED <<xpc, injected>>
               ELSE /\ xs' = [xs EXCEPT ![t].err = TRUE]
                    /\ xpc' = [xpc EXCEPT ![t] = "failed"]
                    /\ injected' = [injected EXCEPT ![t] = @ \/ o[3] \/ ~readDirOk]
  /\ UNCHANGED <<env, ret, gvars>>

\* lines 110-113: if err != nil { cleanup(); return "", nil, err }
XFailNoCleanup(t) ==
  /\ xpc[t] = "failed"
  /\ xpc' = [xpc EXCEPT ![t] = "done"]
  /\ ret' = [ret EXCEPT ![t] = [path |-> NoPath, cleanup |-> FALSE, err |-> TRUE]]
  /\ UNCHANGED <<disk, env, xs, injected, faults, gvars>>
XFail(t) ==
  /\ xpc[t] = "failed"
  /\ xpc' = [xpc EXCEPT ![t] = "cleaning"]
  /\ cpc' = [cpc EXCEPT ![t] = "fast"]
  /\ cg' = [cg EXCEPT ![t] = t]
  /\ UNCHANGED <<disk, env, xs, ret, injected, faults,
                 gpath, gkind, once, ncalls, removals, rmRes, retd, recreated>>

\* line 115: return absTempDir, cleanup, nil
XReturn(t) ==
  /\ xpc[t] = "visit"
  /\ xs[t].todo = <<>>
  /\ xpc' = [xpc EXCEPT ![t] = "done"]
  /\ ret' = [ret EXCEPT ![t] = [path |-> xs[t].absTempDir, cleanup |-> TRUE, err |-> FALSE]]
  /\ UNCHANGED <<disk, env, xs, injected, faults, gvars>>

ExtractStep(t) ==
  \/ XStart(t)
  \/ XMkdirTemp(t)
  \/ XWalkRoot(t)
  \/ XVisit(t)
  \/ XFail(t)
  \/ XReturn(t)

\* The goroutines of `active` each call ExtractToTemp(fsys, root, "tst", dir).
InitX(f, roots, dirs, active) ==
  /\ fsys = f
  /\ rootIn = roots
  /\ tempDirIn = dirs
  /\ disk = BaseDisk
  /\ xpc = [t \in Threads |-> IF t \in active THEN "start" ELSE "none"]
  /\ xs = [t \in Threads |-> NoLocals]
  /\ filePathIn = [t \in Threads |-> <<>>]
  /\ fx = [t \in Threads |-> NoFileLocals]
  /\ ret = [t \in Threads |-> NoRet]
  /\ gpath = [t \in Threads |-> NoPath]
  /\ gkind = [t \in Threads |-> "dir"]
  /\ once = [t \in Threads |-> [done |-> 0, m |-> 0]]
  /\ cpc = [t \in Threads |-> "idle"]
  /\ cg = [t \in Threads |-> t]
  /\ ncalls = [t \in Threads |-> 0]
  /\ removals = [t \in Threads |-> 0]
  /\ rmRes = [t \in Threads |-> "none"]
  /\ retd = [t \in Threads |-> 0]
  /\ recreated = [t \in Threads |-> FALSE]
  /\ injected = [t \in Threads |-> FALSE]
  /\ faults = 0
  /\ NoListeners

NextX ==
  \/ \E t \in Threads : ExtractStep(t)
  \/ \E t \in Threads : CleanupCall(t, t)
  \/ \E t \in Threads : CleanupStep(t)

\* The calls alone, concurrently: no trigger is invoked after a call returned it.
NextCalls ==
  \/ \E t \in Threads : ExtractStep(t)
  \/ \E t \in Threads : CleanupStep(t)

\* One caller makes the calls one after the other.
Turn(t) == \A u \in 1..(t - 1) : xpc[u] \in {"none", "done"}
NextSeq ==
  \/ \E t \in Threads : Turn(t) /\ ExtractStep(t)
  \/ \E t \in Threads : Turn(t) /\ CleanupStep(t)

\* One call, on any source tree, root and base directory.
Roots == {<<>>, <<".">>, <<"a">>, <<"b">>, <<"a", "a">>}
TempDirs == {<<>>, <<"base">>}

InitExtract ==
  \E f \in SourceTrees, r \in Roots, dir \in TempDirs :
    InitX(f, [t \in Threads |-> r], [t \in Threads |-> dir], {1})

SpecExtract == InitExtract /\ [][NextX]_vars

\* Two calls on the same source, one with root "" and one with root ".".
InitRoots ==
  \E f \in SourceTrees :
    InitX(f, [t \in Threads |-> IF t = 1 THEN <<>> ELSE <<".">>],
          [t \in Threads |-> <<>>], {1, 2})

SpecRoots == InitRoots /\ [][NextSeq]_vars

\* Every goroutine extracts the same root of the same source concurrently.
ConcTree ==
  [q \in {<<".">>, <<"a">>, <<"a", "a">>, <<"a", "b">>} |->
     IF q = <<"a", "a">> THEN File("x") ELSE IF q = <<"a", "b">> THEN File("y") ELSE Dir]

InitConc ==
  InitX(ConcTree, [t \in Threads |-> <<"a">>], [t \in Threads |-> <<>>], Threads)

SpecConc == InitConc /\ [][NextCalls]_vars

\* The same concurrent calls, goroutine 1 invoking the trigger it got while
\* the others are still extracting or hold their destinations.
NextShare ==
  \/ \E t \in Threads : ExtractStep(t)
  \/ CleanupCall(1, 1)
  \/ \E t \in Threads : CleanupStep(t)

SpecShare == InitConc /\ [][NextShare]_vars

\* ------------------------------------- the callback under any walk order
\* The sequences that list every element of S once.
Perms(S) ==
  {q \in [1..Cardinality(S) -> S] : \A i, j \in 1..Cardinality(S) : q[i] = q[j] => i = j}

\* The nodes of the source below the root r.
Below(f, r) ==
  {p \in DOMAIN f : p # r /\ p # <<".">> /\ (r = <<".">> \/ IsPrefix(r, p))}

\* A walk that delivers the root first and then the nodes below it in an
\* order of its own choosing (a file possibly before its parent directory).
XWalkAnyOrder(t) ==
  /\ xpc[t] = "walk"
  /\ \/ /\ StatOk(fsys, xs[t].root)
        /\ \E q \in Perms(Below(fsys, xs[t].root)) :
             xs' = [xs EXCEPT ![t].todo = <<xs[t].root>> \o q]
        /\ xpc' = [xpc EXCEPT ![t] = "deliver"]
        /\ UNCHANGED <<injected, faults>>
     \/ /\ xs' = [xs EXCEPT ![t].err = TRUE]
        /\ xpc' = [xpc EXCEPT ![t] = "failed"]
        /\ injected' = [injected EXCEPT ![t] = @ \/ StatOk(fsys, xs[t].root)]
        /\ Fault(StatOk(fsys, xs[t].root))
  /\ UNCHANGED <<disk, env, ret, gvars>>

\* fn(path, d, nil) on the next delivered node; its error ends the walk.
XDeliver(t) ==
  /\ xpc[t] = "deliver"
  /\ LET path == Head(xs[t].todo)
     IN \E o \in WalkFn(disk, fsys, xs[t].root, xs[t].absTempDir, path) :
          /\ disk' = o[1]
          /\ Fault(o[3])
          /\ IF o[2]
               THEN /\ xs' = [xs EXCEPT ![t].todo = Tail(xs[t].todo)]
                    /\ xpc' = [xpc EXCEPT ![t] =
                                 IF Tail(xs[t].todo) = <<>> THEN "visit" ELSE "deliver"]
                    /\ UNCHANGED injected
               ELSE /\ xs' = [xs EXCEPT ![t].err = TRUE]
                    /\ xpc' = [xpc EXCEPT ![t] = "failed"]
                    /\ injected' = [injected EXCEPT ![t] = @ \/ o[3]]
  /\ UNCHANGED <<env, ret, gvars>>

NextOrder ==
  \/ \E t \in Threads : XStart(t)
  \/ \E t \in Threads : XMkdirTemp(t)
  \/ \E t \in Threads : XWalkAnyOrder(t)
  \/ \E t \in Threads : XDeliver(t)
  \/ \E t \in Threads : XFail(t)
  \/ \E t \in Threads : XReturn(t)
  \/ \E t \in Threads : CleanupStep(t)

\* One call on any source tree, with a root that is "." or the entry "a".
InitOrder ==
  \E f \in SourceTrees, r \in {<<".">>, <<"a">>} :
    InitX(f, [t \in Threads |-> r], [t \in Threads |-> <<>>], {1})

SpecOrder == InitOrder /\ [][NextOrder]_vars

\* ----------------------------------------------------------- ExtractFile
\* Position of the last occurrence of the one-character string c in s, or 0.
LastIndex(s, c) ==
  LET I == {i \in 1..Len(s) : SubSeq(s, i, i) = c}
  IN IF I = {} THEN 0 ELSE CHOOSE i \in I : \A j \in I : j <= i

\* filepath.Ext(filePath): from the last "." of the last element, "" if none
Ext(p) ==
  IF p = <<>> THEN ""
  ELSE LET s == p[Len(p)]
           i == LastIndex(s, ".")
       IN IF i = 0 THEN "" ELSE SubSeq(s, i, Len(s))

\* tempPrefix+"-*"+ext
Pattern(ext) == "tst-*" \o ext

\* os.CreateTemp's name for random part r: the last "*" of the pattern is
\* replaced by it; without a "*" it is appended.
CreateTempName(pattern, r) ==
  LET pos == LastIndex(pattern, "*")
  IN IF pos = 0 THEN pattern \o ToString(r)
     ELSE SubSeq(pattern, 1, pos - 1) \o ToString(r)
          \o SubSeq(pattern, pos + 1, Len(pattern))

\* fs.ReadFile(fsys, filePath) succeeds on an existing regular file
ReadFileCan(f, p) == ValidPath(p) /\ p \in DOMAIN f /\ ~f[p].dir

\* An operation of ExtractFile fails for a reason of the environment.
FileFault(is) ==
  /\ is => faults < MaxFileFaults
  /\ faults' = IF is THEN faults + 1 ELSE faults

FileReturnErr(t) ==
  /\ xpc' = [xpc EXCEPT ![t] = "done"]
  /\ ret' = [ret EXCEPT ![t] = [path |-> NoPath, cleanup |-> FALSE, err |-> TRUE]]

\* lines 138-141: the default of tempDir
FStart(t) ==
  /\ xpc[t] = "fstart"
  /\ fx' = [fx EXCEPT ![t].baseDir = NormBase(tempDirIn[t])]
  /\ xpc' = [xpc EXCEPT ![t] = "fread"]
  /\ UNCHANGED <<disk, ins, lvars, xs, ret, injected, faults, gvars>>

\* lines 144-147: data, err := fs.ReadFile(fsys, filePath)
FReadLeavesFile(t) ==
  /\ xpc[t] = "fread"
  /\ \/ /\ ReadFileCan(fsys, filePathIn[t])
        /\ fx' = [fx EXCEPT ![t].data = ReadFile(fsys, filePathIn[t])]
        /\ xpc' = [xpc EXCEPT ![t] = "fcreate"]
        /\ UNCHANGED <<disk, ret, injected, faults>>
     \/ /\ FileReturnErr(t)
        /\ disk' = Put(disk, Resolve(fx[t].baseDir \o <<CreateTempName(Pattern(""), 1)>>),
                       File(""))
        /\ injected' = [injected EXCEPT ![t] = ReadFileCan(fsys, filePathIn[t])]
        /\ FileFault(ReadFileCan(fsys, filePathIn[t]))
        /\ fx' = [fx EXCEPT ![t].at = "read"]
  /\ UNCHANGED <<ins, lvars, xs, gvars>>
FRead(t) ==
  /\ xpc[t] = "fread"
  /\ \/ /\ ReadFileCan(fsys, filePathIn[t])
        /\ fx' = [fx EXCEPT ![t].data = ReadFile(fsys, filePathIn[t])]
        /\ xpc' = [xpc EXCEPT ![t] = "fcreate"]
        /\ UNCHANGED <<ret, injected, faults>>
     \/ /\ FileReturnErr(t)
        /\ injected' = [injected EXCEPT ![t] = ReadFileCan(fsys, filePathIn[t])]
        /\ FileFault(ReadFileCan(fsys, filePathIn[t]))
        /\ fx' = [fx EXCEPT ![t].at = "read"]
  /\ UNCHANGED <<disk, ins, lvars, xs, gvars>>

\* os.CreateTemp can open a new file in base: base is a directory
CreateTempCan(d, base) == Resolve(base) \in DOMAIN d /\ d[Resolve(base)].dir

\* The random parts whose name is free (O_EXCL; a taken name is drawn again).
CreateTempFree(d, base, pattern) ==
  {r \in 1..NumRand : Resolve(base \o <<CreateTempName(pattern, r)>>) \notin DOMAIN d}

\* lines 151-155: ext := filepath.Ext(filePath); os.CreateTemp(baseDir, ...)
FCreateTemp(t) ==
  /\ xpc[t] = "fcreate"
  /\ LET ext == Ext(filePathIn[t])
         can == CreateTempCan(disk, fx[t].baseDir)
                /\ CreateTempFree(disk, fx[t].baseDir, Pattern(ext)) # {}
     IN \/ /\ can
           /\ \E r \in CreateTempFree(disk, fx[t].baseDir, Pattern(ext)) :
                LET name == fx[t].baseDir \o <<CreateTempName(Pattern(ext), r)>>
                IN /\ disk' = Put(disk, Resolve(name), File(""))
                   /\ fx' = [fx EXCEPT ![t].ext = ext, ![t].name = name,
                                       ![t].created = TRUE]
           /\ xpc' = [xpc EXCEPT ![t] = "fwrite"]
           /\ UNCHANGED <<ret, injected, faults>>
        \/ /\ FileReturnErr(t)
           /\ fx' = [fx EXCEPT ![t].ext = ext, ![t].at = "create"]
           /\ injected' = [injected EXCEPT ![t] = can]
           /\ FileFault(can)
           /\ UNCHANGED disk
  /\ UNCHANGED <<ins, lvars, xs, gvars>>

\* line 158: tempFile.Write(data); a failed write leaves the file short
FWrite(t) ==
  /\ xpc[t] = "fwrite"
  /\ \/ /\ Resolve(fx[t].name) \in DOMAIN disk
        /\ disk' = Put(disk, Resolve(fx[t].name), File(fx[t].data))
        /\ xpc' = [xpc EXCEPT ![t] = "fclose"]
        /\ UNCHANGED <<fx, injected, faults>>
     \/ /\ xpc' = [xpc EXCEPT ![t] = "fremove"]
        /\ fx' = [fx EXCEPT ![t].at = "write"]
        /\ injected' = [injected EXCEPT ![t] = TRUE]
        /\ FileFault(TRUE)
        /\ UNCHANGED disk
  /\ UNCHANGED <<ins, lvars, xs, ret, gvars>>

\* line 164: tempFile.Close()
FClose(t) ==
  /\ xpc[t] = "fclose"
  /\ \/ /\ xpc' = [xpc EXCEPT ![t] = "fabs"]
        /\ UNCHANGED <<fx, injected, faults>>
     \/ /\ xpc' = [xpc EXCEPT ![t] = "fremove"]
        /\ fx' = [fx EXCEPT ![t].at = "close"]
        /\ injected' = [injected EXCEPT ![t] = TRUE]
        /\ FileFault(TRUE)
  /\ UNCHANGED <<disk, ins, lvars, xs, ret, gvars>>

\* lines 159-161, 165-166: os.Remove(tempFile.Name()), its result dropped,
\* and the error of the write or close is returned
FRemoveSkips(t) ==
  /\ xpc[t] = "fremove"
  /\ FileReturnErr(t)
  /\ UNCHANGED <<disk, ins, lvars, xs, fx, injected, faults, gvars>>
FRemove(t) ==
  /\ xpc[t] = "fremove"
  /\ \E o \in RemovalOutcomes(disk, Resolve(fx[t].name), "file") :
       /\ disk' = o[1]
       /\ fx' = [fx EXCEPT ![t].rm = o[2]]
       /\ FileFault(o[3])
  /\ FileReturnErr(t)
  /\ UNCHANGED <<ins, lvars, xs, injected, gvars>>

\* lines 169-181: the absolute path, the guard, the return
FReturn(t) ==
  /\ xpc[t] = "fabs"
  /\ \E absOk \in BOOLEAN :
       LET absFilePath == IF absOk THEN Abs(fx[t].name) ELSE fx[t].name
       IN /\ fx' = [fx EXCEPT ![t].absFilePath = absFilePath]
          /\ gpath' = [gpath EXCEPT ![t] = absFilePath]
          /\ gkind' = [gkind EXCEPT ![t] = "file"]
          /\ once' = [once EXCEPT ![t] = [done |-> 0, m |-> 0]]
          /\ ret' = [ret EXCEPT ![t] = [path |-> absFilePath, cleanup |-> TRUE,
                                        err |-> FALSE]]
          /\ FileFault(~absOk)
  /\ xpc' = [xpc EXCEPT ![t] = "done"]
  /\ UNCHANGED <<disk, ins, lvars, xs, injected,
                 cpc, cg, ncalls, removals, rmRes, retd, recreated>>

FileStep(t) ==
  \/ FStart(t)
  \/ FRead(t)
  \/ FCreateTemp(t)
  \/ FWrite(t)
  \/ FClose(t)
  \/ FRemove(t)
  \/ FReturn(t)

\* The source of the single-file extractions.
FileTree ==
  [q \in {<<".">>, <<"a">>, <<"a.t">>, <<"a.b.c">>, <<".x">>, <<"a.">>,
          <<"a.x*y">>, <<"d.e">>, <<"d.e", "f">>, <<"d.e", "f.g">>} |->
     IF q \in {<<".">>, <<"d.e">>} THEN Dir
     ELSE IF Len(q) = 1 THEN File("x") ELSE File("y")]

\* filePath arguments: the entries of the source, a missing file, "".
FilePaths == (DOMAIN FileTree) \cup {<<"zz.t">>, <<>>}

\* tempDir arguments: the default, a directory, a regular file.
FileTempDirs == TempDirs \cup {<<"keep">>}

\* Goroutine 1 calls ExtractFile(fsys, filePath, "tst", tempDir).
InitFile ==
  /\ fsys = FileTree
  /\ rootIn = [t \in Threads |-> <<".">>]
  /\ tempDirIn \in {[t \in Threads |-> dir] : dir \in FileTempDirs}
  /\ filePathIn \in {[t \in Threads |-> p] : p \in FilePaths}
  /\ disk = BaseDisk
  /\ xpc = [t \in Threads |-> IF t = 1 THEN "fstart" ELSE "none"]
  /\ xs = [t \in Threads |-> NoLocals]
  /\ fx = [t \in Threads |-> NoFileLocals]
  /\ ret = [t \in Threads |-> NoRet]
  /\ gpath = [t \in Threads |-> NoPath]
  /\ gkind = [t \in Threads |-> "file"]
  /\ once = [t \in Threads |-> [done |-> 0, m |-> 0]]
  /\ cpc = [t \in Threads |-> "idle"]
  /\ cg = [t \in Threads |-> t]
  /\ ncalls = [t \in Threads |-> 0]
  /\ removals = [t \in Threads |-> 0]
  /\ rmRes = [t \in Threads |-> "none"]
  /\ retd = [t \in Threads |-> 0]
  /\ recreated = [t \in Threads |-> FALSE]
  /\ injected = [t \in Threads |-> FALSE]
  /\ faults = 0
  /\ NoListeners

NextFile ==
  \/ \E t \in Threads : FileStep(t)
  \/ \E t \in Threads : CleanupCall(t, t)
  \/ \E t \in Threads : CleanupStep(t)

SpecFile == InitFile /\ [][NextFile]_vars

\* ------------------------------------------------- StartCleanupListener
\* signal.Notify(sigCh, os.Interrupt, syscall.SIGTERM, syscall.SIGHUP)
SIGHUP == 1
SIGINT == 2
SIGTERM == 15
Signals == {SIGHUP, SIGINT, SIGTERM}

\* An os.Signal value that is not a syscall.Signal (it has no number); the
\* signals os/signal delivers are all syscall.Signal values.
NoteSignal == -1
IsSyscallSignal(sig) == sig > 0

\* lines 200-204: if s, ok := sig.(syscall.Signal); ok { os.Exit(128 + int(s)) }
\*                else { os.Exit(1) }
ExitBase == 128
ExitFallback == 1
ExitCodeNoBase(sig) == IF IsSyscallSignal(sig) THEN sig ELSE ExitBase
ExitCode(sig) == IF IsSyscallSignal(sig) THEN ExitBase + sig ELSE ExitFallback

Running == proc.state = "running"

\* The directory call l registers: the destination of an earlier extraction.
ListenerDir(l) == Cwd \o <<TmpName(l)>>

\* lines 189-193, 210: the channels, the subscription, the goroutine; the
\* call returns the stop function.
StartCleanupListener(l) ==
  /\ Running
  /\ ~lis[l].started
  /\ lis' = [lis EXCEPT ![l] = [NoListener EXCEPT !.started = TRUE,
                                                  !.dir = ListenerDir(l),
                                                  !.notify = TRUE,
                                                  !.pc = "select"]]
  /\ UNCHANGED <<disk, ins, fx, proc, nstops, nsigs,
                 xpc, xs, ret, injected, faults, gvars>>

\* The operating system sends a registered signal.  os/signal sends it to
\* every subscribed channel without blocking (a full buffer drops it); with
\* no subscription left the default action ends the process.
SignalArrives(sig) ==
  /\ Running
  /\ nsigs < MaxSignals
  /\ nsigs' = nsigs + 1
  /\ IF \E l \in Listeners : lis[l].notify
       THEN /\ lis' = [l \in Listeners |->
                         IF lis[l].notify /\ lis[l].sigCh = 0
                           THEN [lis[l] EXCEPT !.sigCh = sig]
                           ELSE lis[l]]
            /\ UNCHANGED proc
       ELSE /\ proc' = [state |-> "killed", code |-> ExitCode(sig)]
            /\ UNCHANGED lis
  /\ UNCHANGED <<disk, ins, fx, nstops,
                 xpc, xs, ret, injected, faults, gvars>>

\* line 195: case sig := <-sigCh
ListenerReceives(l) ==
  /\ Running
  /\ lis[l].pc = "select"
  /\ lis[l].sigCh # 0
  /\ lis' = [lis EXCEPT ![l].sig = lis[l].sigCh, ![l].sigCh = 0, ![l].pc = "got"]
  /\ UNCHANGED <<disk, ins, fx, proc, nstops, nsigs,
                 xpc, xs, ret, injected, faults, gvars>>

\* lines 205-206: case <-stopped: return
ListenerStopped(l) ==
  /\ Running
  /\ lis[l].pc = "select"
  /\ lis[l].stopped
  /\ lis' = [lis EXCEPT ![l].pc = "returned"]
  /\ UNCHANGED <<disk, ins, fx, proc, nstops, nsigs,
                 xpc, xs, ret, injected, faults, gvars>>

\* lines 196-199: the message, os.RemoveAll(dir), its error only printed
ListenerRemovesMarksGuard(l) ==
  /\ Running
  /\ lis[l].pc = "got"
  /\ \E o \in RemovalOutcomes(disk, Resolve(lis[l].dir), "dir") :
       /\ disk' = o[1]
       /\ lis' = [lis EXCEPT ![l].rmErr = (o[2] = "fail"), ![l].pc = "removed"]
       /\ Fault(o[3])
  /\ once' = [g \in Threads |->
               IF Resolve(gpath[g]) = Resolve(lis[l].dir)
                 THEN [once[g] EXCEPT !.done = 1] ELSE once[g]]
  /\ UNCHANGED <<ins, fx, proc, nstops, nsigs, xpc, xs, ret, injected,
                 gpath, gkind, cpc, cg, ncalls, removals, rmRes, retd, recreated>>
ListenerRemoves(l) ==
  /\ Running
  /\ lis[l].pc = "got"
  /\ \E o \in RemovalOutcomes(disk, Resolve(lis[l].dir), "dir") :
       /\ disk' = o[1]
       /\ lis' = [lis EXCEPT ![l].rmErr = (o[2] = "fail"), ![l].pc = "removed"]
       /\ Fault(o[3])
  /\ UNCHANGED <<ins, fx, proc, nstops, nsigs,
                 xpc, xs, ret, injected, gvars>>

\* lines 200-204: os.Exit ends the process, whatever else is running
ListenerExitsEarly(l) ==
  /\ Running
  /\ lis[l].pc \in {"got", "removed"}
  /\ proc' = [state |-> "exited", code |-> ExitCode(lis[l].sig)]
  /\ lis' = [lis EXCEPT ![l].pc = "exited"]
  /\ UNCHANGED <<disk, ins, fx, nstops, nsigs,
                 xpc, xs, ret, injected, faults, gvars>>
ListenerExits(l) ==
  /\ Running
  /\ lis[l].pc = "removed"
  /\ proc' = [state |-> "exited", code |-> ExitCode(lis[l].sig)]
  /\ lis' = [lis EXCEPT ![l].pc = "exited"]
  /\ UNCHANGED <<disk, ins, fx, nstops, nsigs,
                 xpc, xs, ret, injected, faults, gvars>>

\* line 211: stop() begins with close(stopped); closing a closed channel
\* panics, and the panic of a goroutine ends the process.
StopCloses(l) ==
  /\ Running
  /\ lis[l].started
  /\ lis[l].spc = "idle"
  /\ nstops[l] < MaxStops
  /\ nstops' = [nstops EXCEPT ![l] = @ + 1]
  /\ IF lis[l].stopped
       THEN /\ proc' = [state |-> "panicked", code |-> 2]
            /\ UNCHANGED lis
       ELSE /\ lis' = [lis EXCEPT ![l].stopped = TRUE, ![l].spc = "closed"]
            /\ UNCHANGED proc
  /\ UNCHANGED <<disk, ins, fx, nsigs,
                 xpc, xs, ret, injected, faults, gvars>>

\* line 212: signal.Stop(sigCh), and stop() returns
StopUnsubscribes(l) ==
  /\ Running
  /\ lis[l].spc = "closed"
  /\ lis' = [lis EXCEPT ![l].notify = FALSE, ![l].spc = "idle"]
  /\ UNCHANGED <<disk, ins, fx, proc, nstops, nsigs,
                 xpc, xs, ret, injected, faults, gvars>>

\* The program holds the destinations of earlier successful extractions and
\* registers listeners on them.
ListenerDisk ==
  [q \in DOMAIN BaseDisk
         \cup UNION {{ListenerDir(l), ListenerDir(l) \o <<"a">>} : l \in Listeners} |->
     IF q \in DOMAIN BaseDisk THEN BaseDisk[q]
     ELSE IF q[Len(q)] = "a" THEN File("x") ELSE Dir]

InitListener ==
  /\ fsys = [q \in {<<".">>} |-> Dir]
  /\ rootIn = [t \in Threads |-> <<".">>]
  /\ tempDirIn = [t \in Threads |-> <<>>]
  /\ disk = ListenerDisk
  /\ xpc = [t \in Threads |-> "none"]
  /\ xs = [t \in Threads |-> NoLocals]
  /\ filePathIn = [t \in Threads |-> <<>>]
  /\ fx = [t \in Threads |-> NoFileLocals]
  /\ ret = [t \in Threads |-> NoRet]
  /\ gpath = [t \in Threads |-> NoPath]
  /\ gkind = [t \in Threads |-> "dir"]
  /\ once = [t \in Threads |-> [done |-> 0, m |-> 0]]
  /\ cpc = [t \in Threads |-> "idle"]
  /\ cg = [t \in Threads |-> t]
  /\ ncalls = [t \in Threads |-> 0]
  /\ removals = [t \in Threads |-> 0]
  /\ rmRes = [t \in Threads |-> "none"]
  /\ retd = [t \in Threads |-> 0]
  /\ recreated = [t \in Threads |-> FALSE]
  /\ injected = [t \in Threads |-> FALSE]
  /\ faults = 0
  /\ NoListeners

NextListener ==
  \/ \E l \in Listeners : StartCleanupListener(l)
  \/ \E sig \in Signals : SignalArrives(sig)
  \/ \E l \in Listeners : ListenerReceives(l)
  \/ \E l \in Listeners : ListenerStopped(l)
  \/ \E l \in Listeners : ListenerRemoves(l)
  \/ \E l \in Listeners : ListenerExits(l)
  \/ \E l \in Listeners : StopCloses(l)
  \/ \E l \in Listeners : StopUnsubscribes(l)

SpecListener == InitListener /\ [][NextListener]_vars

\* The goroutine of a listener is scheduled again and again, and a stop call
\* that has begun runs to its end.
FairListener ==
  \A l \in Listeners :
    /\ WF_vars(ListenerReceives(l) \/ ListenerStopped(l))
    /\ WF_vars(ListenerRemoves(l))
    /\ WF_vars(ListenerExits(l))
    /\ WF_vars(StopUnsubscribes(l))

SpecListenerFair == SpecListener /\ FairListener

\* A listener registered on the destination of a successful ExtractToTemp
\* whose cleanup trigger the goroutines still hold.
InitFire ==
  /\ InitGuard
  /\ gkind[1] = "dir"

NextFire ==
  \/ StartCleanupListener(1)
  \/ \E sig \in Signals : SignalArrives(sig)
  \/ \E l \in Listeners : ListenerReceives(l)
  \/ \E l \in Listeners : ListenerRemoves(l)
  \/ \E l \in Listeners : ListenerExits(l)
  \/ \E t \in Threads : Running /\ CleanupCall(t, 1)
  \/ \E t \in Threads : Running /\ CleanupStep(t)

SpecFire == InitFire /\ [][NextFire]_vars

\* ---------------------------------------------------------------- claims
Dest(g) == Resolve(gpath[g])
Succeeded(t) == xpc[t] = "done" /\ ret[t].cleanup /\ ~ret[t].err
Failed(t) == xpc[t] = "done" /\ ret[t].err
\* The call succeeded and its trigger has not been invoked yet.
Live(t) == Succeeded(t) /\ removals[t] = 0
Gone(g) == Under(disk, Dest(g)) = {}

\* What lies below the destination, by path relative to it.
DestTree(t) ==
  { <<SubSeq(q, Len(Dest(t)) + 1, Len(q)), disk[q]>> :
      q \in Under(disk, Dest(t)) \ {Dest(t)} }

\* The source below root r, by path relative to r ("" and "." name the top).
IsTop(r) == r = <<>> \/ r = <<".">>
BelowRoot(r, p) ==
  /\ p # <<".">>
  /\ IsTop(r) \/ (Len(p) > Len(r) /\ IsPrefix(r, p))
RelTo(r, p) == IF IsTop(r) THEN p ELSE SubSeq(p, Len(r) + 1, Len(p))
SourceTree(r) ==
  { <<RelTo(r, p), fsys[p]>> : p \in {q \in DOMAIN fsys : BelowRoot(r, q)} }

\* C1: however often and from however many goroutines a returned trigger is
\* invoked, the removal of its destination is attempted at most once, and
\* exactly once as soon as one invocation has returned.
C1_RemovalAtMostOnce ==
  \A g \in Threads :
    /\ removals[g] <= 1
    /\ retd[g] > 0 => removals[g] = 1

C1_Witness == retd[1] = NumThreads * MaxCalls /\ removals[1] = 1

\* C2: no invocation of a trigger returns before the single removal attempt
\* has ended; a caller that does not remove waits for the one that does.
C2_ReturnAfterRemoval ==
  \A g \in Threads : retd[g] > 0 => rmRes[g] # "none"

C2_Witness ==
  \E t, u \in Threads :
    /\ cg[t] = 1 /\ cg[u] = 1
    /\ cpc[t] = "removing"
    /\ cpc[u] = "lock"

\* C4 as claimed: once an invocation of the trigger of a successful call has
\* returned (and nothing created the path again), the destination is gone.
C4_GoneAfterCleanup ==
  \A g \in Threads : (HasTrigger(g) /\ retd[g] >= 1 /\ ~recreated[g]) => Gone(g)

\* C4 amended: ... the destination is gone provided the removal succeeded;
\* when the removal fails its error is discarded and entries can remain.
C4_GoneAfterSuccessfulRemoval ==
  \A g \in Threads :
    (HasTrigger(g) /\ retd[g] >= 1 /\ ~recreated[g] /\ rmRes[g] = "ok") => Gone(g)

C4_Witness ==
  /\ gkind[1] = "dir"
  /\ retd[1] >= 1 /\ rmRes[1] = "ok" /\ ~recreated[1]
  /\ Gone(1)

\* C5: once an invocation of a trigger has returned, no later step of any
\* invocation starts a removal or removes or alters an entry of the disk,
\* also when the destination path has been created again in between.
C5_LaterInvocationsNoOp ==
  [][ \A g \in Threads :
        retd[g] >= 1 =>
          /\ removals'[g] = removals[g]
          /\ \A q \in DOMAIN disk : q \in DOMAIN disk' /\ disk'[q] = disk[q] ]_vars

C5_Witness ==
  \E t \in Threads :
    /\ cpc[t] = "fast" /\ cg[t] = 1
    /\ retd[1] >= 1 /\ recreated[1]
    /\ Dest(1) \in DOMAIN disk

\* C3 as claimed: a call that fails after the temporary directory was made
\* returns ("", nil, err) and the directory with its contents is gone.
C3_FailureLeavesNothing ==
  \A t \in Threads :
    (Failed(t) /\ gpath[t] # NoPath) =>
      /\ ret[t].path = NoPath /\ ~ret[t].cleanup
      /\ Gone(t)

\* C3 amended: ... returns ("", nil, err) after one removal attempt on the
\* directory has ended; the directory is gone whenever that removal succeeded
\* (its error is discarded).
C3_FailureCleansUp ==
  \A t \in Threads :
    (Failed(t) /\ gpath[t] # NoPath) =>
      /\ ret[t].path = NoPath /\ ~ret[t].cleanup
      /\ removals[t] = 1 /\ rmRes[t] # "none"
      /\ rmRes[t] = "ok" => Gone(t)

\* The walk failed at a later node, after the first entries were written.
C3_Witness ==
  /\ Failed(1) /\ injected[1] /\ rmRes[1] = "ok" /\ Gone(1)
  /\ xs[1].todo # <<>>
  /\ Head(xs[1].todo) # xs[1].root
  /\ Len(Head(xs[1].todo)) > 1

\* C6: when a call has succeeded, every file of the source below the root is
\* in the destination at its path relative to the root, with the same content.
C6_FilesCopied ==
  \A t \in Threads :
    Live(t) =>
      \A p \in DOMAIN fsys :
        (BelowRoot(rootIn[t], p) /\ ~fsys[p].dir) =>
          LET q == Dest(t) \o RelTo(rootIn[t], p)
          IN q \in DOMAIN disk /\ disk[q] = fsys[p]

C6_Witness ==
  /\ Live(1)
  /\ rootIn[1] = <<"a">>
  /\ <<"a", "a", "b">> \in DOMAIN fsys
  /\ ~fsys[<<"a", "a", "b">>].dir

\* C7 as claimed: after a successful call with a root other than ".", no
\* top-level entry of the destination bears the name of the root segment.
C7_NoEntryNamedRoot ==
  \A t \in Threads :
    (Live(t) /\ ~IsTop(rootIn[t])) =>
      Dest(t) \o <<rootIn[t][Len(rootIn[t])]>> \notin DOMAIN disk

\* C7 amended: ... the top-level entries of the destination are exactly the
\* children of the root, with their kinds: an entry named like the root is
\* there only when the root has a child of that name.
C7_TopLevelIsRootsChildren ==
  \A t \in Threads :
    (Live(t) /\ ~IsTop(rootIn[t])) =>
      \A i \in 1..Len(NameOrder) :
        LET q == Dest(t) \o <<NameOrder[i]>>
            p == rootIn[t] \o <<NameOrder[i]>>
        IN /\ q \in DOMAIN disk <=> p \in DOMAIN fsys
           /\ q \in DOMAIN disk => disk[q].dir = fsys[p].dir

C7_Witness ==
  /\ Live(1)
  /\ rootIn[1] = <<"a">>
  /\ <<"a", "a">> \in DOMAIN fsys
  /\ Dest(1) \o <<"a">> \in DOMAIN disk

\* C8: a call with root "" and a call with root "." on the same source, when
\* no I/O operation of either fails, both succeed or both fail, and their
\* destinations hold the same relative paths with the same contents.
C8_EmptyRootIsDot ==
  (/\ xpc[1] = "done" /\ xpc[2] = "done"
   /\ rootIn[1] = <<>> /\ rootIn[2] = <<".">>
   /\ ~injected[1] /\ ~injected[2]) =>
     /\ ret[1].err = ret[2].err
     /\ (Succeeded(1) /\ Succeeded(2)) => DestTree(1) = DestTree(2)

C8_Witness ==
  /\ rootIn[1] = <<>> /\ rootIn[2] = <<".">>
  /\ Succeeded(1) /\ Succeeded(2)
  /\ Cardinality(DestTree(1)) >= 2
  /\ DestTree(1) = DestTree(2)

\* C9: of the calls that run concurrently on the same source, the successful
\* ones return pairwise distinct destinations, each holding exactly the
\* source's entries below the root.
C9_ConcurrentCallsIndependent ==
  /\ \A t, u \in Threads :
       (t # u /\ Succeeded(t) /\ Succeeded(u)) =>
         Resolve(ret[t].path) # Resolve(ret[u].path)
  /\ \A t \in Threads : Succeeded(t) => DestTree(t) = SourceTree(rootIn[t])

C9_Witness ==
  /\ \A t \in Threads : Succeeded(t)
  /\ \E t \in Threads : \E u \in Threads : t # u /\ Dest(t) # Dest(u)

\* C10: the stop function of a listener can be called any number of times
\* and at any moment: no call of it panics (a second close of its channel
\* would), also after the listener has received its signal.
C10_StopNeverPanics == proc.state # "panicked"

\* C11: a listener that received a signal ends the process only after its
\* removal of the registered path has ended, and whenever that removal has
\* ended, failed or not, the exit is the listener's next step.
C11_RemoveThenExit ==
  /\ [][ \A l \in Listeners :
          (lis'[l].pc = "exited" /\ lis[l].pc # "exited") => lis[l].pc = "removed" ]_vars
  /\ [](\A l \in Listeners :
          (Running /\ lis[l].pc = "removed") => ENABLED ListenerExits(l))

C11_Witness ==
  \E l \in Listeners :
    /\ proc.state = "exited"
    /\ lis[l].pc = "exited" /\ lis[l].rmErr
    /\ Resolve(lis[l].dir) \in DOMAIN disk

\* C12: when ExtractFile fails reading the source file (missing, not a file,
\* or a read error) it returns ("", nil, err), has created no temporary file
\* and has left the disk as it was.
C12_ReadFailureNoEffect ==
  \A t \in Threads :
    (Failed(t) /\ fx[t].at = "read") =>
      /\ ret[t].path = NoPath /\ ~ret[t].cleanup
      /\ ~fx[t].created
      /\ disk = BaseDisk

C12_Witness ==
  /\ Failed(1) /\ fx[1].at = "read"
  /\ filePathIn[1] = <<"a.t">>
  /\ injected[1]
  /\ disk = BaseDisk

\* The temporary file a failed ExtractFile call had created is not on disk.
FileGone(t) == Resolve(fx[t].name) \notin DOMAIN disk

\* C13 as claimed: after any failed ExtractFile call the result is ("", nil,
\* err) and no temporary file created by the call remains on disk.
C13_FailureLeavesNoFile ==
  \A t \in Threads :
    (Failed(t) /\ fx[t].at # "none") =>
      /\ ret[t].path = NoPath /\ ~ret[t].cleanup
      /\ fx[t].created => FileGone(t)

\* C13 amended: ... the result is ("", nil, err); when the write or the close
\* failed, one os.Remove of the created file has ended before the return and
\* the file is gone whenever that removal succeeded (its error is dropped);
\* when an earlier step failed, nothing was created.
C13_FailureRemovesFile ==
  \A t \in Threads :
    (Failed(t) /\ fx[t].at # "none") =>
      /\ ret[t].path = NoPath /\ ~ret[t].cleanup
      /\ fx[t].created <=> fx[t].at \in {"write", "close"}
      /\ fx[t].created => (fx[t].rm # "none" /\ (fx[t].rm = "ok" => FileGone(t)))
      /\ ~fx[t].created => disk = BaseDisk

C13_Witness ==
  /\ Failed(1) /\ fx[1].at = "close"
  /\ fx[1].created /\ fx[1].rm = "ok"
  /\ FileGone(1)
  /\ disk = BaseDisk

\* The last element of the path a successful ExtractFile returned.
FileName(t) == ret[t].path[Len(ret[t].path)]

\* C14: the name of the file a successful ExtractFile created is the prefix,
\* "-", the random component and then the extension of the source file (from
\* the last "." of its base name), and nothing after the random component
\* when the source has no extension.
C14_NameKeepsExtension ==
  \A t \in Threads :
    (Succeeded(t) /\ gkind[t] = "file") =>
      \E r \in 1..NumRand :
        FileName(t) = "tst-" \o ToString(r) \o Ext(filePathIn[t])

\* C15: whatever the order in which the walk delivers the nodes below the
\* root (a file before its parent directory included), every file in the
\* destination has all its ancestor directories, a call on a root that is a
\* directory fails only when an I/O operation fails, and a successful call
\* has written every node: no write ever found an ancestor missing.
C15_AncestorsBeforeFile ==
  \A t \in Threads :
    /\ \A q \in Under(disk, Dest(t)) :
         \A k \in Len(Dest(t))..(Len(q) - 1) :
           SubSeq(q, 1, k) \in DOMAIN disk /\ disk[SubSeq(q, 1, k)].dir
    /\ (xs[t].err /\ ~injected[t]) =>
         ~(StatOk(fsys, xs[t].root) /\ fsys[xs[t].root].dir)
    /\ Live(t) => DestTree(t) = SourceTree(rootIn[t])

\* A file two levels down was delivered, and written, before its parents.
C15_Witness ==
  /\ xpc[1] = "deliver"
  /\ Len(xs[1].todo) >= 2
  /\ \E p \in DOMAIN fsys :
       /\ Len(p) = 3 /\ ~fsys[p].dir
       /\ Dest(1) \o p \in DOMAIN disk
       /\ disk[Dest(1) \o p] = fsys[p]
       /\ \E i \in 1..Len(xs[1].todo) : xs[1].todo[i] = SubSeq(p, 1, 2)

\* The stop function of listener l has been called and has returned.
StopReturned(l) == lis[l].stopped /\ lis[l].spc = "idle"

\* C16: once the stop function of a listener has been invoked and has
\* returned, no later step of that listener removes its registered path or
\* ends the process.
C16_StoppedNeverFires ==
  [][ \A l \in Listeners :
        StopReturned(l) =>
          (lis'[l].pc = lis[l].pc \/ lis'[l].pc \notin {"removed", "exited"}) ]_vars

\* The signal has been delivered to listener l.
Delivered(l) == lis[l].sigCh # 0 \/ lis[l].sig # 0

\* C17: when a listener has ended the process, every listener that was armed
\* when the signal arrived has carried out the removal of its own path.
C17_EveryArmedPathRemoved ==
  proc.state = "exited" =>
    \A l \in Listeners :
      (Delivered(l) /\ ~lis[l].stopped) => lis[l].pc \in {"removed", "exited"}

\* C19: a listener's steps leave the sync.Once of every guard as it was; the
\* flag of a guard is set only by the guard's own, single removal; and a
\* guard's removal that runs when the path is already gone ends without
\* error and without touching the disk.
C19_ListenerLeavesGuard ==
  /\ [][ (lis' # lis) => once' = once ]_vars
  /\ [][ \A t \in Threads :
           (cpc[t] = "removing" /\ cpc'[t] = "store" /\ Dest(cg[t]) \notin DOMAIN disk) =>
             (rmRes'[cg[t]] = "ok" /\ disk' = disk) ]_vars
  /\ [](\A g \in Threads :
          /\ once[g].done = 1 => removals[g] = 1
          /\ retd[g] >= 1 => (removals[g] = 1 /\ rmRes[g] # "none"))

\* The listener has removed the path; the first trigger invocation, made
\* afterwards, is inside its own removal.
C19_Witness ==
  /\ lis[1].pc = "removed" /\ ~lis[1].rmErr
  /\ Resolve(lis[1].dir) = Dest(1)
  /\ Dest(1) \notin DOMAIN disk
  /\ once[1].done = 0
  /\ removals[1] = 1
  /\ \E t \in Threads : cpc[t] = "removing" /\ cg[t] = 1

Armed(l) == lis[l].pc = "select" /\ ~lis[l].stopped
Disengaged(l) == lis[l].pc = "returned"
Fired(l) == lis[l].pc \in {"got", "removed", "exited"}

\* C20: under fair scheduling, after stop was invoked the watching goroutine
\* returns (Disengaged), unless a panic or an unhandled signal ends the
\* process first; after a signal was delivered to an armed listener the
\* process is eventually terminated (Fired); both states are terminal.
C20_ArmedLeadsToTerminal ==
  /\ \A l \in Listeners :
       lis[l].stopped ~> (Disengaged(l) \/ proc.state \in {"panicked", "killed"})
  /\ \A l \in Listeners :
       (Armed(l) /\ lis[l].sigCh # 0) ~> ~Running
  /\ [][ \A l \in Listeners :
           /\ Disengaged(l) => lis'[l].pc = "returned"
           /\ Fired(l) => lis'[l].pc \in {"got", "removed", "exited"} ]_vars

\* Under fair scheduling a listener whose signal was delivered or whose stop
\* was invoked does not stay in its select.
ArmedIsLeft ==
  \A l \in Listeners :
    (lis[l].pc = "select" /\ (lis[l].stopped \/ lis[l].sigCh # 0))
      ~> (lis[l].pc # "select" \/ ~Running)

\* The root of the call is missing from the source or is a regular file.
BadRoot(t) ==
  LET r == NormRoot(rootIn[t])
  IN r \notin DOMAIN fsys \/ ~fsys[r].dir

\* C18 as claimed: a call whose root is missing or a regular file ends with
\* an error, ("", nil, err), and no temporary directory of it is left.
C18_BadRootLeavesNothing ==
  \A t \in Threads :
    (xpc[t] = "done" /\ BadRoot(t)) =>
      /\ Failed(t)
      /\ ret[t].path = NoPath /\ ~ret[t].cleanup
      /\ gpath[t] # NoPath => Gone(t)

\* C18 amended: ... ends with an error, ("", nil, err), after one removal
\* attempt on its temporary directory, which is gone whenever that removal
\* succeeded (its error is discarded).
C18_BadRootFails ==
  \A t \in Threads :
    (xpc[t] = "done" /\ BadRoot(t)) =>
      /\ Failed(t)
      /\ ret[t].path = NoPath /\ ~ret[t].cleanup
      /\ gpath[t] # NoPath =>
           /\ removals[t] = 1 /\ rmRes[t] # "none"
           /\ rmRes[t] = "ok" => Gone(t)

\* The root is a regular file two levels down; no I/O operation failed.
C18_Witness ==
  /\ rootIn[1] = <<"a", "a">>
  /\ <<"a", "a">> \in DOMAIN fsys /\ ~fsys[<<"a", "a">>].dir
  /\ Failed(1) /\ ~injected[1]
  /\ gpath[1] # NoPath /\ rmRes[1] = "ok" /\ Gone(1)

\* The call of goroutine u has a destination of its own on disk: it is
\* extracting into it or holds it, and its guard has not run.
Holds(u) == gpath[u] # NoPath /\ removals[u] = 0

\* C21: the removal a cleanup trigger performs changes nothing outside the
\* destination of its own call: every other entry of the disk (the base
\* directory's, the destinations of the other calls, finished or running)
\* is as before, nothing is created, and no other call's destination lies
\* at or below the path removed.
C21_CleanupRemovesOnlyOwn ==
  [][ \A t \in Threads :
        (cpc[t] = "removing" /\ cpc'[t] = "store") =>
          /\ DOMAIN disk' \subseteq DOMAIN disk
          /\ \A q \in DOMAIN disk :
               ~IsPrefix(Dest(cg[t]), q) => (q \in DOMAIN disk' /\ disk'[q] = disk[q])
          /\ \A u \in Threads \ {cg[t]} :
               Holds(u) => ~IsPrefix(Dest(cg[t]), Dest(u)) ]_vars

\* Goroutine 1's destination has been removed by its trigger while
\* goroutine 2 is in the middle of its walk, its entries and the base
\* directory's untouched; and likewise with goroutine 2 finished.
C21_Witness ==
  /\ retd[1] >= 1 /\ rmRes[1] = "ok" /\ ret[1].cleanup
  /\ Holds(2) /\ Dest(2) # Dest(1)
  /\ xpc[2] = "visit" /\ Len(xs[2].todo) = 1
  /\ Dest(2) \o <<"a">> \in DOMAIN disk
  /\ \A q \in DOMAIN BaseDisk : q \in DOMAIN disk /\ disk[q] = BaseDisk[q]

\* C22: a firing listener ends the process with status 128 plus the number
\* of the signal it received; the status computed for a signal value without
\* a number is 1; for the three registered signals the status is above 128
\* (129, 130 and 143).
C22_ExitStatus ==
  /\ \A l \in Listeners :
       lis[l].pc = "exited" =>
         /\ proc.state = "exited"
         /\ lis[l].sig \in Signals
         /\ proc.code = 128 + lis[l].sig
         /\ proc.code > 128
         /\ proc.code \in {129, 130, 143}
  /\ proc.state = "exited" => \E l \in Listeners : lis[l].pc = "exited"
  /\ \A sig \in Signals \cup {NoteSignal} :
       ExitCode(sig) = IF sig = NoteSignal THEN 1 ELSE 128 + sig

C22_Witness ==
  /\ proc = [state |-> "exited", code |-> 143]
  /\ \E l \in Listeners : lis[l].pc = "exited" /\ lis[l].sig = SIGTERM

====
